---- MODULE Spec2Model ----
(***************************************************************************)
(* The PCF operator charm (src/charm.py): four observed events, two        *)
(* readiness-gated config-write handlers and one reconciliation handler,   *)
(* driven by the relation / workload events of the orchestration layer.    *)
(***************************************************************************)
EXTENDS Integers, Sequences, FiniteSets, TLC

(***************************************************************************)
(* Bounds of the model.                                                    *)
(***************************************************************************)
\* longest URI list a database payload carries
MaxUris == 2
\* how many times the registry URL is (re)published
MaxNrfEvents == 2

\* the single-character URIs database payloads are built from
Uris == {"a", "b"}
\* the URLs the registry may publish
NrfUrls == {"http://1.1.1.1", "2.2.2.2"}

(***************************************************************************)
(* Program constants.                                                      *)
(***************************************************************************)
DATABASE_NAME == "free5gc"
\* f"{BASE_CONFIG_PATH}/{CONFIG_FILE_NAME}"
ConfigPath == "/etc/pcf/pcfcfg.conf"
\* the pod's address, as "unit-get private-address" gives it
PodIp == "POD_IP"

VARIABLES
  database_relation,  \* model.get_relation("database") is set
  nrf_relation,       \* model.get_relation("nrf") is set
  database_created,   \* DatabaseRequires.is_resource_created()
  database_uris,      \* the "uris" key of the database relation data (characters)
  nrf_url,            \* NRFRequires.get_nrf_url(); "" while nothing is published
  can_connect,        \* Container.can_connect()
  files,              \* the workload's files: path -> content
  layers,             \* the Pebble layers of the workload, in order
  running,            \* the service configurations Pebble currently runs
  restarts,           \* how many service (re)starts Pebble has signaled
  status,             \* unit.status
  pending,            \* the hooks that are due to run
  deferred,           \* events a handler deferred, awaiting redelivery
  nrf_events,         \* registry URLs published so far
  arrival,            \* the dependencies in the order their data first arrived
  last                \* what the handling of this step did ("none" on other steps)

vars == <<database_relation, nrf_relation, database_created, database_uris, nrf_url,
          can_connect, files, layers, running, restarts, status, pending, deferred,
          nrf_events, arrival, last>>

(***************************************************************************)
(* Strings are sequences of characters, so that split(",") is computed.    *)
(***************************************************************************)
Comma == ","

\* ",".join(list)
RECURSIVE Join(_)
Join(list) ==
  IF list = <<>> THEN <<>>
  ELSE IF Len(list) = 1 THEN <<list[1]>>
  ELSE <<list[1], Comma>> \o Join(Tail(list))

\* the URI lists of 1..n URIs
UriLists(n) == UNION {[1..k -> Uris] : k \in 1..n}

\* the payload strings a database may publish
DbPayloads == {Join(l) : l \in UriLists(MaxUris)}

\* str.split(","): the pieces between the commas, in order
RECURSIVE SplitFrom(_, _, _)
SplitFrom(s, i, piece) ==
  IF i > Len(s) THEN <<piece>>
  ELSE IF s[i] = Comma THEN <<piece>> \o SplitFrom(s, i + 1, <<>>)
  ELSE SplitFrom(s, i + 1, Append(piece, s[i]))

Split(s) == SplitFrom(s, 1, <<>>)

(***************************************************************************)
(* Statuses (ops.model).                                                   *)
(***************************************************************************)
BlockedStatus(msg) == [name |-> "blocked", message |-> msg]
WaitingStatus(msg) == [name |-> "waiting", message |-> msg]
ActiveStatus == [name |-> "active", message |-> ""]
UnknownStatus == [name |-> "unknown", message |-> ""]

(***************************************************************************)
(* Events.                                                                 *)
(***************************************************************************)
PebbleReadyEvent == [name |-> "pcf_pebble_ready", uris |-> <<>>, url |-> ""]
RelationJoinedEvent == [name |-> "database_relation_joined", uris |-> <<>>, url |-> ""]
DatabaseCreatedEvent(uris) == [name |-> "database_created", uris |-> uris, url |-> ""]
NRFAvailableEvent(url) == [name |-> "nrf_available", uris |-> <<>>, url |-> url]

\* the hooks the charm observes an event of
Hooks == {"pcf_pebble_ready", "database_relation_joined", "database_created",
          "nrf_available"}

Events ==
  {PebbleReadyEvent, RelationJoinedEvent}
    \cup {DatabaseCreatedEvent(u) : u \in DbPayloads}
    \cup {NRFAvailableEvent(u) : u \in NrfUrls}

(***************************************************************************)
(* The state a handler reads and changes, as a record.                     *)
(***************************************************************************)
Cur ==
  [database_relation |-> database_relation, nrf_relation |-> nrf_relation,
   database_created |-> database_created, database_uris |-> database_uris,
   nrf_url |-> nrf_url, can_connect |-> can_connect, files |-> files,
   layers |-> layers, running |-> running, restarts |-> restarts,
   status |-> status, deferred |-> deferred,
   wrote |-> FALSE, applied |-> FALSE, did_defer |-> FALSE, fault |-> FALSE,
   reconciled |-> FALSE]

\* event.defer()
Defer(s, event) == [s EXCEPT !.deferred = @ \cup {event}, !.did_defer = TRUE]

SetStatus(s, st) == [s EXCEPT !.status = st]

\* the reconciliation procedure has run in this handling
Reconciled(s) == [s EXCEPT !.reconciled = TRUE]

\* an exception leaves the handler: nothing more is done in it
Raise(s) == [s EXCEPT !.fault = TRUE]

(***************************************************************************)
(* Collaborators: the workload container and Pebble.                       *)
(***************************************************************************)
\* Container.exists(path)
Exists(s, path) == path \in DOMAIN s.files

\* Container.push(path, source)
Push(s, path, source) ==
  [s EXCEPT !.files = [p \in DOMAIN s.files \cup {path} |->
                         IF p = path THEN source ELSE s.files[p]],
            !.wrote = TRUE]

LayerIndex(ls, label) == {i \in 1..Len(ls) : ls[i].label = label}

\* Container.add_layer(label, layer, combine): a layer of that label is merged
\* into (its services carry override "replace"), any other is appended
AddLayer(s, label, layer, combine) ==
  IF combine /\ LayerIndex(s.layers, label) # {}
  THEN [s EXCEPT !.layers = [i \in 1..Len(s.layers) |->
                               IF s.layers[i].label = label
                               THEN [label |-> label, layer |-> layer]
                               ELSE s.layers[i]],
                 !.applied = TRUE]
  ELSE [s EXCEPT !.layers = Append(@, [label |-> label, layer |-> layer]),
                 !.applied = TRUE]

\* the plan the layers add up to: the last layer wins (override: replace)
Plan(ls) == IF ls = <<>> THEN <<>> ELSE <<ls[Len(ls)].layer>>

\* Container.replan(): (re)start the enabled service when what runs is not the plan
Replan(s) ==
  LET plan == Plan(s.layers) IN
  IF plan # <<>> /\ plan[1].startup = "enabled" /\ s.running # plan
  THEN [s EXCEPT !.running = plan, !.restarts = @ + 1]
  ELSE s

(***************************************************************************)
(* The charm.                                                              *)
(***************************************************************************)
_relation_created(s, relation_name) ==
  IF relation_name = "database" THEN s.database_relation ELSE s.nrf_relation

_database_relation_is_created(s) == _relation_created(s, "database")

_nrf_relation_is_created(s) == _relation_created(s, "nrf")

_nrf_data_is_available(s) == IF s.nrf_url = "" THEN FALSE ELSE TRUE

_database_is_available(s) == s.database_created

_config_file_is_written(s) == Exists(s, ConfigPath)

_pcf_hostname == "pcf-operator.model.svc.cluster.local"

_environment_variables ==
  [GRPC_GO_LOG_VERBOSITY_LEVEL |-> "99", GRPC_GO_LOG_SEVERITY_LEVEL |-> "info",
   GRPC_TRACE |-> "all", GRPC_VERBOSITY |-> "debug", POD_IP |-> PodIp,
   MANAGED_BY_CONFIG_POD |-> "true"]

_pebble_layer ==
  [override |-> "replace", startup |-> "enabled",
   command |-> "./pcf --pcfcfg /etc/pcf/pcfcfg.conf",
   environment |-> _environment_variables]

\* the rendered pcfcfg.conf.j2: its four template variables
Render(nrf_url_, pcf_hostname, database_name, database_url) ==
  [nrfUri |-> nrf_url_, registerIPv4 |-> pcf_hostname,
   mongodb_name |-> database_name, mongodb_url |-> database_url]

_write_config_file(s, default_database_url, nrf_url_) ==
  Push(s, ConfigPath, Render(nrf_url_, _pcf_hostname, DATABASE_NAME, default_database_url))

\* as _on_pcf_pebble_ready, with the check of the config file inverted
_on_pcf_pebble_ready_inverted(s, event) ==
  Reconciled(
    IF ~_database_relation_is_created(s)
    THEN SetStatus(s, BlockedStatus("Waiting for database relation to be created"))
    ELSE IF ~_nrf_relation_is_created(s)
    THEN SetStatus(s, BlockedStatus("Waiting for NRF relation to be created"))
    ELSE IF ~s.can_connect
    THEN Defer(SetStatus(s, WaitingStatus("Waiting for container to be ready")), event)
    ELSE IF _config_file_is_written(s)
    THEN SetStatus(s, WaitingStatus("Waiting for config file to be written"))
    ELSE SetStatus(Replan(AddLayer(s, "pcf", _pebble_layer, TRUE)), ActiveStatus)
  )

\* as _on_pcf_pebble_ready, without the check that the config file is written
_on_pcf_pebble_ready_no_file_check(s, event) ==
  Reconciled(
    IF ~_database_relation_is_created(s)
    THEN SetStatus(s, BlockedStatus("Waiting for database relation to be created"))
    ELSE IF ~_nrf_relation_is_created(s)
    THEN SetStatus(s, BlockedStatus("Waiting for NRF relation to be created"))
    ELSE IF ~s.can_connect
    THEN Defer(SetStatus(s, WaitingStatus("Waiting for container to be ready")), event)
    ELSE SetStatus(Replan(AddLayer(s, "pcf", _pebble_layer, TRUE)), ActiveStatus)
  )

\* as _on_pcf_pebble_ready, with the container checked before the relations
_on_pcf_pebble_ready_connect_first(s, event) ==
  Reconciled(
    IF ~s.can_connect
    THEN Defer(SetStatus(s, WaitingStatus("Waiting for container to be ready")), event)
    ELSE IF ~_database_relation_is_created(s)
    THEN SetStatus(s, BlockedStatus("Waiting for database relation to be created"))
    ELSE IF ~_nrf_relation_is_created(s)
    THEN SetStatus(s, BlockedStatus("Waiting for NRF relation to be created"))
    ELSE IF ~_config_file_is_written(s)
    THEN SetStatus(s, WaitingStatus("Waiting for config file to be written"))
    ELSE SetStatus(Replan(AddLayer(s, "pcf", _pebble_layer, TRUE)), ActiveStatus)
  )

\* as _on_pcf_pebble_ready, deferring the event while the config file is missing
_on_pcf_pebble_ready_defer_no_file(s, event) ==
  Reconciled(
    IF ~_database_relation_is_created(s)
    THEN SetStatus(s, BlockedStatus("Waiting for database relation to be created"))
    ELSE IF ~_nrf_relation_is_created(s)
    THEN SetStatus(s, BlockedStatus("Waiting for NRF relation to be created"))
    ELSE IF ~s.can_connect
    THEN Defer(SetStatus(s, WaitingStatus("Waiting for container to be ready")), event)
    ELSE IF ~_config_file_is_written(s)
    THEN Defer(SetStatus(s, WaitingStatus("Waiting for config file to be written")), event)
    ELSE SetStatus(Replan(AddLayer(s, "pcf", _pebble_layer, TRUE)), ActiveStatus)
  )

\* as _on_pcf_pebble_ready, writing the config file anew before the plan is applied
_on_pcf_pebble_ready_rewrites(s, event) ==
  Reconciled(
    IF ~_database_relation_is_created(s)
    THEN SetStatus(s, BlockedStatus("Waiting for database relation to be created"))
    ELSE IF ~_nrf_relation_is_created(s)
    THEN SetStatus(s, BlockedStatus("Waiting for NRF relation to be created"))
    ELSE IF ~s.can_connect
    THEN Defer(SetStatus(s, WaitingStatus("Waiting for container to be ready")), event)
    ELSE IF ~_config_file_is_written(s)
    THEN SetStatus(s, WaitingStatus("Waiting for config file to be written"))
    ELSE SetStatus(
           Replan(AddLayer(
             _write_config_file(s, Split(s.database_uris)[1], s.nrf_url),
             "pcf", _pebble_layer, TRUE)),
           ActiveStatus)
  )

_on_pcf_pebble_ready(s, event) ==
  Reconciled(
    IF ~_database_relation_is_created(s)
    THEN SetStatus(s, BlockedStatus("Waiting for database relation to be created"))
    ELSE IF ~_nrf_relation_is_created(s)
    THEN SetStatus(s, BlockedStatus("Waiting for NRF relation to be created"))
    ELSE IF ~s.can_connect
    THEN Defer(SetStatus(s, WaitingStatus("Waiting for container to be ready")), event)
    ELSE IF ~_config_file_is_written(s)
    THEN SetStatus(s, WaitingStatus("Waiting for config file to be written"))
    ELSE SetStatus(Replan(AddLayer(s, "pcf", _pebble_layer, TRUE)), ActiveStatus)
  )

\* as _on_database_created, without deferring while the container is not ready
_on_database_created_no_defer(s, event) ==
  IF ~s.can_connect
  THEN SetStatus(s, WaitingStatus("Waiting for container to be ready"))
  ELSE IF ~_nrf_relation_is_created(s)
  THEN Defer(SetStatus(s, BlockedStatus("Waiting for NRF relation to be created")), event)
  ELSE IF ~_nrf_data_is_available(s)
  THEN Defer(SetStatus(s, WaitingStatus("Waiting for NRF data to be available")), event)
  ELSE _on_pcf_pebble_ready(
         _write_config_file(s, Split(event.uris)[1], s.nrf_url), event)

\* as _on_database_created, without the check that the NRF data is available
_on_database_created_unchecked(s, event) ==
  IF ~s.can_connect
  THEN Defer(SetStatus(s, WaitingStatus("Waiting for container to be ready")), event)
  ELSE IF ~_nrf_relation_is_created(s)
  THEN Defer(SetStatus(s, BlockedStatus("Waiting for NRF relation to be created")), event)
  ELSE _on_pcf_pebble_ready(
         _write_config_file(s, Split(event.uris)[1], s.nrf_url), event)

\* as _on_database_created, without the reconciliation after the write
_on_database_created_no_reconcile(s, event) ==
  IF ~s.can_connect
  THEN Defer(SetStatus(s, WaitingStatus("Waiting for container to be ready")), event)
  ELSE IF ~_nrf_relation_is_created(s)
  THEN Defer(SetStatus(s, BlockedStatus("Waiting for NRF relation to be created")), event)
  ELSE IF ~_nrf_data_is_available(s)
  THEN Defer(SetStatus(s, WaitingStatus("Waiting for NRF data to be available")), event)
  ELSE _write_config_file(s, Split(event.uris)[1], s.nrf_url)

\* as _on_database_created, taking the last URI of the list
_on_database_created_last_uri(s, event) ==
  IF ~s.can_connect
  THEN Defer(SetStatus(s, WaitingStatus("Waiting for container to be ready")), event)
  ELSE IF ~_nrf_relation_is_created(s)
  THEN Defer(SetStatus(s, BlockedStatus("Waiting for NRF relation to be created")), event)
  ELSE IF ~_nrf_data_is_available(s)
  THEN Defer(SetStatus(s, WaitingStatus("Waiting for NRF data to be available")), event)
  ELSE _on_pcf_pebble_ready(
         _write_config_file(s, Split(event.uris)[Len(Split(event.uris))], s.nrf_url),
         event)

_on_database_created(s, event) ==
  IF ~s.can_connect
  THEN Defer(SetStatus(s, WaitingStatus("Waiting for container to be ready")), event)
  ELSE IF ~_nrf_relation_is_created(s)
  THEN Defer(SetStatus(s, BlockedStatus("Waiting for NRF relation to be created")), event)
  ELSE IF ~_nrf_data_is_available(s)
  THEN Defer(SetStatus(s, WaitingStatus("Waiting for NRF data to be available")), event)
  ELSE _on_pcf_pebble_ready(
         _write_config_file(s, Split(event.uris)[1], s.nrf_url), event)

\* the database relation's data; raises RuntimeError("Database is not available")
\* while the database is not available
_database_data(s) ==
  [raised |-> ~_database_is_available(s), uris |-> s.database_uris]

\* as _on_nrf_available, without the check that the database is available
_on_nrf_available_unchecked(s, event) ==
  IF ~s.can_connect
  THEN Defer(SetStatus(s, WaitingStatus("Waiting for container to be ready")), event)
  ELSE IF ~_database_relation_is_created(s)
  THEN Defer(SetStatus(s, BlockedStatus("Waiting for database relation to be created")), event)
  ELSE IF _database_data(s).raised
  THEN Raise(s)
  ELSE _on_pcf_pebble_ready(
         _write_config_file(s, Split(_database_data(s).uris)[1], event.url), event)

_on_nrf_available(s, event) ==
  IF ~s.can_connect
  THEN Defer(SetStatus(s, WaitingStatus("Waiting for container to be ready")), event)
  ELSE IF ~_database_relation_is_created(s)
  THEN Defer(SetStatus(s, BlockedStatus("Waiting for database relation to be created")), event)
  ELSE IF ~_database_is_available(s)
  THEN Defer(SetStatus(s, WaitingStatus("Waiting for database to be available")), event)
  ELSE IF _database_data(s).raised
  THEN Raise(s)
  ELSE _on_pcf_pebble_ready(
         _write_config_file(s, Split(_database_data(s).uris)[1], event.url), event)

\* framework.observe(...): the handler each event is bound to
Handle(s, event) ==
  CASE event.name = "pcf_pebble_ready" -> _on_pcf_pebble_ready(s, event)
    [] event.name = "database_relation_joined" -> _on_pcf_pebble_ready(s, event)
    [] event.name = "database_created" -> _on_database_created(s, event)
    [] event.name = "nrf_available" -> _on_nrf_available(s, event)

(***************************************************************************)
(* The state machine.                                                      *)
(***************************************************************************)
NoRun == [event |-> PebbleReadyEvent, ran |-> FALSE, wrote |-> FALSE,
          applied |-> FALSE, did_defer |-> FALSE, fault |-> FALSE,
          reconciled |-> FALSE, files_before |-> <<>>]

Init ==
  /\ database_relation = FALSE
  /\ nrf_relation = FALSE
  /\ database_created = FALSE
  /\ database_uris = <<>>
  /\ nrf_url = ""
  /\ can_connect = FALSE
  /\ files = <<>>
  /\ layers = <<>>
  /\ running = <<>>
  /\ restarts = 0
  /\ status = UnknownStatus
  /\ pending = {}
  /\ deferred = {}
  /\ nrf_events = 0
  /\ arrival = <<>>
  /\ last = NoRun

\* what a handler run leaves behind
Commit(s, event, dfr) ==
  /\ files' = s.files
  /\ layers' = s.layers
  /\ running' = s.running
  /\ restarts' = s.restarts
  /\ status' = s.status
  /\ deferred' = dfr
  /\ last' = [event |-> event, ran |-> TRUE, wrote |-> s.wrote, applied |-> s.applied,
              did_defer |-> s.did_defer, fault |-> s.fault,
              reconciled |-> s.reconciled, files_before |-> files]
  /\ UNCHANGED <<database_relation, nrf_relation, database_created, database_uris,
                 nrf_url, can_connect, nrf_events, arrival>>

\* the event a hook's library emits, built from the relation data as it is when
\* the hook runs
EventOf(name) ==
  CASE name = "pcf_pebble_ready" -> PebbleReadyEvent
    [] name = "database_relation_joined" -> RelationJoinedEvent
    [] name = "database_created" -> DatabaseCreatedEvent(database_uris)
    [] name = "nrf_available" -> NRFAvailableEvent(nrf_url)

\* a hook runs: its event is emitted to the handler observing it
Deliver(name) ==
  /\ name \in pending
  /\ pending' = pending \ {name}
  /\ \E event \in {EventOf(name)} :
       \E s \in {Handle(Cur, event)} : Commit(s, event, s.deferred)

\* the framework re-emits a deferred event; it stays deferred only when the
\* handler defers it again
Redeliver(event) ==
  /\ event \in deferred
  /\ UNCHANGED pending
  /\ \E s \in {Handle([Cur EXCEPT !.deferred = @ \ {event}], event)} :
       Commit(s, event, s.deferred)

Emit(name) ==
  /\ pending' = pending \cup {name}
  /\ last' = NoRun
  /\ UNCHANGED <<files, layers, running, restarts, status, deferred>>

\* the database relation is created and joined
DatabaseRelationJoined ==
  /\ ~database_relation
  /\ database_relation' = TRUE
  /\ Emit("database_relation_joined")
  /\ UNCHANGED <<nrf_relation, database_created, database_uris, nrf_url, can_connect,
                 nrf_events, arrival>>

\* the NRF relation is created and joined; the charm observes no event for it
NrfRelationJoined ==
  /\ ~nrf_relation
  /\ nrf_relation' = TRUE
  /\ last' = NoRun
  /\ UNCHANGED <<database_relation, database_created, database_uris, nrf_url,
                 can_connect, files, layers, running, restarts, status, pending,
                 deferred, nrf_events, arrival>>

\* the database is created: its credentials and URIs are published, once
DatabaseCreated(uris) ==
  /\ database_relation
  /\ ~database_created
  /\ database_created' = TRUE
  /\ database_uris' = uris
  /\ arrival' = Append(arrival, "database")
  /\ Emit("database_created")
  /\ UNCHANGED <<database_relation, nrf_relation, nrf_url, can_connect, nrf_events>>

\* the registry publishes its URL
NrfAvailable(url) ==
  /\ nrf_relation
  /\ nrf_events < MaxNrfEvents
  /\ nrf_events' = nrf_events + 1
  /\ nrf_url' = url
  /\ arrival' = IF nrf_events = 0 THEN Append(arrival, "nrf") ELSE arrival
  /\ Emit("nrf_available")
  /\ UNCHANGED <<database_relation, nrf_relation, database_created, database_uris,
                 can_connect>>

\* Pebble in the workload container comes up
PebbleReady ==
  /\ ~can_connect
  /\ can_connect' = TRUE
  /\ Emit("pcf_pebble_ready")
  /\ UNCHANGED <<database_relation, nrf_relation, database_created, database_uris,
                 nrf_url, nrf_events, arrival>>

\* the workload container becomes unreachable
ContainerLost ==
  /\ can_connect
  /\ can_connect' = FALSE
  /\ last' = NoRun
  /\ UNCHANGED <<database_relation, nrf_relation, database_created, database_uris,
                 nrf_url, files, layers, running, restarts, status, pending, deferred,
                 nrf_events, arrival>>

Next ==
  \/ \E name \in Hooks : Deliver(name)
  \/ \E event \in Events : Redeliver(event)
  \/ DatabaseRelationJoined
  \/ NrfRelationJoined
  \/ \E uris \in DbPayloads : DatabaseCreated(uris)
  \/ \E url \in NrfUrls : NrfAvailable(url)
  \/ PebbleReady
  \/ ContainerLost

Spec == Init /\ [][Next]_vars

\* the runs of one database payload and one registry URL
LiveUris == <<"a", Comma, "b">>
LiveUrl == "http://1.1.1.1"
LiveEvents ==
  {PebbleReadyEvent, RelationJoinedEvent, DatabaseCreatedEvent(LiveUris),
   NRFAvailableEvent(LiveUrl)}

LiveNext ==
  \/ \E name \in Hooks : Deliver(name)
  \/ \E event \in LiveEvents : Redeliver(event)
  \/ DatabaseRelationJoined
  \/ NrfRelationJoined
  \/ DatabaseCreated(LiveUris)
  \/ NrfAvailable(LiveUrl)
  \/ PebbleReady
  \/ ContainerLost

\* the hooks of the two data-changed events
DataHooks == {"database_created", "nrf_available"}

\* every due data-changed hook runs and every deferred data-changed event is
\* redelivered, in no fixed order; nothing is asked of the other events
Fairness ==
  /\ \A name \in DataHooks : WF_vars(Deliver(name))
  /\ \A event \in {e \in LiveEvents : e.name \in DataHooks} :
       WF_vars(Redeliver(event))

LiveSpec == Init /\ [][LiveNext]_vars /\ Fairness

TypeOK ==
  /\ status.name \in {"unknown", "blocked", "waiting", "active"}
  /\ pending \subseteq Hooks
  /\ deferred \subseteq Events
  /\ restarts \in 0..1
  /\ Len(arrival) <= 2
(***************************************************************************)
(* Properties.                                                             *)
(***************************************************************************)
BlockedDatabase == BlockedStatus("Waiting for database relation to be created")
BlockedRegistry == BlockedStatus("Waiting for NRF relation to be created")
WaitingRuntime == WaitingStatus("Waiting for container to be ready")
WaitingArtifact == WaitingStatus("Waiting for config file to be written")

BothEstablished == database_relation /\ nrf_relation
BothAvailable == database_created /\ nrf_url # ""
ArtifactExists == ConfigPath \in DOMAIN files
ReconcileOnly == last.event.name \in {"pcf_pebble_ready", "database_relation_joined"}

\* C1: every write of the config file happens with the database and the NRF
\* relation both created and the data of both available (a handling leaves
\* these facts as it found them, so they are read after it).
C1_WriteNeedsBoth ==
  (last.ran /\ last.wrote) => (BothEstablished /\ BothAvailable)

C1_Witness ==
  /\ last.ran /\ last.wrote
  /\ last.event.name = "nrf_available"
  /\ BothEstablished /\ BothAvailable

\* C2: the layer is added and replanned only with both relations created, the
\* container reachable and the config file present; a handling that leaves the
\* status Active has applied the plan; and neither a plan nor Active exists
\* without the config file.
C2_PlanNeedsArtifact ==
  /\ (last.ran /\ last.applied) =>
       (BothEstablished /\ can_connect /\ ArtifactExists)
  /\ (last.ran /\ status = ActiveStatus) => last.applied
  /\ (status = ActiveStatus \/ layers # <<>>) => ArtifactExists

C2_Witness ==
  last.ran /\ last.applied /\ status = ActiveStatus /\ layers # <<>>

\* C3: a handling with the database relation created and the NRF relation not
\* created leaves Blocked(NRF relation), whether or not the container is reachable.
C3_BlockedRegistryAlways ==
  (last.ran /\ database_relation /\ ~nrf_relation) => status = BlockedRegistry

\* C3 (amended): as above, except that a database-created event handled while the
\* container is unreachable leaves Waiting(container), its first check.
C3_BlockedRegistry ==
  (last.ran /\ database_relation /\ ~nrf_relation) =>
    IF last.event.name = "database_created" /\ ~can_connect
    THEN status = WaitingRuntime /\ last.did_defer
    ELSE status = BlockedRegistry

C3_Witness ==
  /\ last.ran /\ database_relation /\ ~nrf_relation /\ ~can_connect
  /\ ReconcileOnly
  /\ status = BlockedRegistry

\* C4: a handling of any event with both relations created and the container
\* unreachable leaves Waiting(container), defers the event, writes no config
\* file and applies no plan.
C4_UnreachableDefers ==
  (last.ran /\ BothEstablished /\ ~can_connect) =>
    /\ status = WaitingRuntime
    /\ last.did_defer /\ last.event \in deferred
    /\ ~last.wrote /\ files = last.files_before
    /\ ~last.applied

\* all four kinds of event are deferred, the last of them just now
C4_Witness ==
  /\ last.ran /\ BothEstablished /\ ~can_connect
  /\ status = WaitingRuntime /\ last.did_defer
  /\ {e.name : e \in deferred} =
       {"pcf_pebble_ready", "database_relation_joined", "database_created",
        "nrf_available"}

\* C5: a pebble-ready or relation-joined handling with both relations created,
\* the container reachable and no config file leaves Waiting(config file),
\* defers nothing, applies no plan and writes no config file.
C5_ArtifactAbsentWaits ==
  (last.ran /\ ReconcileOnly /\ BothEstablished /\ can_connect
     /\ ConfigPath \notin DOMAIN last.files_before) =>
    /\ status = WaitingArtifact
    /\ ~last.did_defer
    /\ ~last.applied
    /\ ~last.wrote /\ ~ArtifactExists

C5_Witness ==
  /\ last.ran /\ ReconcileOnly /\ BothEstablished /\ can_connect
  /\ ~ArtifactExists /\ status = WaitingArtifact
\* x is the first element of the comma-delimited list s: the characters of s
\* before its first comma
IsFirstElement(x, s) ==
  /\ Len(x) <= Len(s)
  /\ \A i \in 1..Len(x) : x[i] = s[i] /\ x[i] # Comma
  /\ Len(x) < Len(s) => s[Len(x) + 1] = Comma

Artifact == files[ConfigPath]

\* C7: every config file written carries the first element of the database's
\* URI list as database URL and the registry's current URL as NRF URL.
C7_ArtifactFromCurrent ==
  (last.ran /\ last.wrote) =>
    /\ IsFirstElement(Artifact.mongodb_url, database_uris)
    /\ Artifact.nrfUri = nrf_url

\* what the code does instead of C7: the NRF URL is the one the NRF-available
\* event carries, which is the registry's current one only until the next is published
C7_ArtifactFromEvent ==
  (last.ran /\ last.wrote) =>
    /\ IsFirstElement(Artifact.mongodb_url, database_uris)
    /\ Artifact.nrfUri =
         IF last.event.name = "nrf_available" THEN last.event.url ELSE nrf_url

\* both dependencies published their data once and no data event awaits handling
BothProcessed ==
  /\ database_created /\ nrf_events = 1
  /\ pending \cap DataHooks = {}
  /\ \A e \in deferred : e.name \notin DataHooks

\* C8: once the database's and the registry's data events are both handled to
\* the end (deferred ones redelivered), the config file is the rendering of the
\* first database URI and the registry URL, in either order of arrival.
C8_OrderIndependent ==
  \A order \in {<<"database", "nrf">>, <<"nrf", "database">>} :
    (arrival = order /\ BothProcessed) =>
      /\ ArtifactExists
      /\ IsFirstElement(Artifact.mongodb_url, database_uris)
      /\ Artifact.nrfUri = nrf_url
      /\ Artifact.registerIPv4 = _pcf_hostname
      /\ Artifact.mongodb_name = DATABASE_NAME

\* the database's data came first, its deferred event was redelivered last
C8_Witness ==
  /\ arrival = <<"database", "nrf">> /\ BothProcessed
  /\ Len(database_uris) > 1
  /\ last.ran /\ last.wrote /\ last.event.name = "database_created"
  /\ ConfigPath \in DOMAIN last.files_before

\* C9: the pebble-ready and relation-joined handlings never write or change the
\* config file; with both relations created, the container reachable and the
\* config file present they apply the plan and leave Active.
C9_ReconcileKeepsArtifact ==
  (last.ran /\ ReconcileOnly) =>
    /\ ~last.wrote
    /\ files = last.files_before
    /\ (BothEstablished /\ can_connect /\ ArtifactExists) =>
         (last.applied /\ status = ActiveStatus)

C9_Witness ==
  /\ last.ran /\ last.event.name = "pcf_pebble_ready"
  /\ ConfigPath \in DOMAIN last.files_before
  /\ last.applied /\ status = ActiveStatus /\ ~last.wrote

ArtifactCurrent ==
  /\ ArtifactExists
  /\ IsFirstElement(Artifact.mongodb_url, database_uris)
  /\ Artifact.nrfUri = nrf_url

\* C6: when from some point on both relations are created with their data
\* available and the container stays reachable, the config file is eventually
\* written and the status eventually Active (hooks and deferred events being
\* delivered fairly), whatever the order of the events.
C6_EventuallyActive ==
  <>[](BothEstablished /\ BothAvailable /\ can_connect) =>
    <>(ArtifactExists /\ status = ActiveStatus)

\* the registry's data came first; the handling of the database's data writes
\* the config file and reaches Active
C6_Witness ==
  /\ BothEstablished /\ BothAvailable /\ can_connect
  /\ arrival = <<"nrf", "database">>
  /\ ArtifactExists /\ status = ActiveStatus
  /\ last.ran /\ last.wrote /\ ConfigPath \notin DOMAIN last.files_before

\* a handling step: the only steps that record a run
Handling == last'.ran

\* C10: once Active, with the container reachable and the config file rendered
\* from the current payloads, a handling of any event leaves the config file,
\* the layers, what runs, the restarts signaled and Active as they are and
\* defers nothing.
C10_Idempotent ==
  [][(status = ActiveStatus /\ can_connect /\ ArtifactCurrent /\ Handling) =>
       /\ files' = files
       /\ layers' = layers /\ running' = running /\ restarts' = restarts
       /\ status' = ActiveStatus
       /\ deferred' \subseteq deferred]_vars

\* what holds of C10: the same, for events whose payload is the current one (a
\* new event, or a deferred one published no later than the current payload)
C10_IdempotentFresh ==
  [][(status = ActiveStatus /\ can_connect /\ ArtifactCurrent /\ Handling
        /\ (last'.event.name = "nrf_available" => last'.event.url = nrf_url)
        /\ (last'.event.name = "database_created" =>
              last'.event.uris = database_uris)) =>
       /\ files' = files
       /\ layers' = layers /\ running' = running /\ restarts' = restarts
       /\ status' = ActiveStatus
       /\ deferred' \subseteq deferred]_vars

WaitingRegistryData == WaitingStatus("Waiting for NRF data to be available")
WaitingDatabaseData == WaitingStatus("Waiting for database to be available")

\* the status says nothing the readiness facts of this state contradict
StatusAgrees ==
  /\ status = BlockedDatabase => ~database_relation
  /\ status = BlockedRegistry => ~nrf_relation
  /\ status = WaitingDatabaseData => database_relation /\ ~database_created
  /\ status = WaitingRegistryData => nrf_relation /\ nrf_url = ""
  /\ status = WaitingRuntime => ~can_connect
  /\ status = WaitingArtifact => ~ArtifactExists
  /\ status = ActiveStatus => BothEstablished /\ can_connect /\ ArtifactExists

\* C11 (as claimed): in every reachable state the status agrees with the
\* current readiness facts.
C11_StatusAgreesAlways == StatusAgrees

\* C11: right after an event is handled, the status agrees with the readiness
\* facts: Blocked(kind) only with that relation missing, Waiting(kind data)
\* only with the relation created and its data missing, Waiting(container)
\* only with the container unreachable, Waiting(config file) only with the
\* file absent, Active only with both relations, the container and the file.
C11_StatusAgreesAfterHandling == last.ran => StatusAgrees

\* a handling that found everything ready ended in Active
C11_Witness ==
  /\ last.ran
  /\ last.applied
  /\ status = ActiveStatus

\* no event is waiting to be handled, fresh or deferred
Quiescent == pending = {} /\ deferred = {}

\* once the events of the database relation's joining are handled, the status
\* no longer reports the database relation as missing
C12_DatabaseJoinReevaluated ==
  Quiescent /\ database_relation => status # BlockedDatabase

\* C12: the joining of either relation is followed by a handling that
\* re-evaluates the status: once every event raised so far is handled, the
\* status reports Blocked for neither the database relation nor the NRF
\* relation if that relation has joined.
C12_JoinedReevaluated ==
  /\ C12_DatabaseJoinReevaluated
  /\ Quiescent /\ nrf_relation => status # BlockedRegistry

DataChanged == last.event.name \in {"database_created", "nrf_available"}

\* the handling stopped at a gate of the config-write step with status st
Gated(st) ==
  /\ status = st
  /\ last.did_defer
  /\ last.event \in deferred
  /\ ~last.wrote
  /\ files = last.files_before
  /\ ~last.applied
  /\ ~last.reconciled

\* C13: a data event handled with the container reachable and the other
\* relation missing ends in Blocked(other relation); with the other relation
\* created and its data missing it ends in Waiting(other data); in both cases
\* the event is deferred, the config file is not written, the plan is not
\* applied and the reconciliation procedure is not run.
C13_ConfigWriteGating ==
  last.ran /\ can_connect =>
    /\ last.event.name = "database_created" /\ ~nrf_relation
         => Gated(BlockedRegistry)
    /\ last.event.name = "database_created" /\ nrf_relation /\ nrf_url = ""
         => Gated(WaitingRegistryData)
    /\ last.event.name = "nrf_available" /\ ~database_relation
         => Gated(BlockedDatabase)
    /\ last.event.name = "nrf_available" /\ database_relation /\ ~database_created
         => Gated(WaitingDatabaseData)

\* an nrf_available event was stopped at the gate of the database's data
C13_Witness ==
  /\ last.ran /\ can_connect
  /\ last.event.name = "nrf_available"
  /\ database_relation /\ ~database_created
  /\ Gated(WaitingDatabaseData)

C15_NoFault == last.ran => ~last.fault

\* the NRF's URL arrived before the database was created; an nrf_available
\* event then read the database's data for the write it made
C15_Witness ==
  /\ last.ran /\ last.wrote
  /\ last.event.name = "nrf_available"
  /\ arrival = <<"nrf", "database">>

\* C16: with the container unreachable and the database relation missing, a
\* pebble-ready or relation-joined event ends in Blocked(database relation)
\* and is not deferred, whereas an nrf_available event ends in
\* Waiting(container) and is deferred.
C16_CheckOrder ==
  last.ran /\ ~can_connect /\ ~database_relation =>
    /\ ReconcileOnly =>
         /\ status = BlockedDatabase
         /\ ~last.did_defer
         /\ last.event \notin deferred
    /\ last.event.name = "nrf_available" =>
         /\ status = WaitingRuntime
         /\ last.did_defer
         /\ last.event \in deferred

\* a pebble-ready event ended in Blocked(database relation) there, after an
\* nrf_available event was deferred
C16_Witness ==
  /\ last.ran /\ ~can_connect /\ ~database_relation
  /\ last.event.name = "pcf_pebble_ready"
  /\ status = BlockedDatabase
  /\ \E e \in deferred : e.name = "nrf_available"

\* the data of the dependency other than the handled event's is available
OtherAvailable ==
  IF last.event.name = "database_created" THEN nrf_url # "" ELSE database_created

\* C17: a data event handled with the container reachable, both relations
\* created and the other dependency's data available writes the config file,
\* runs the reconciliation procedure, which applies the plan, and ends in
\* Active without being deferred, all in that one handling.
C17_SingleHandling ==
  last.ran /\ DataChanged /\ can_connect /\ BothEstablished /\ OtherAvailable =>
    /\ last.wrote
    /\ ArtifactExists
    /\ last.reconciled
    /\ last.applied
    /\ status = ActiveStatus
    /\ ~last.did_defer

\* a database_created event found no config file, wrote it and applied the
\* plan on top of it: the service was started by this handling
C17_Witness ==
  /\ last.ran /\ can_connect
  /\ last.event.name = "database_created"
  /\ last.files_before = <<>>
  /\ last.wrote /\ last.applied
  /\ restarts = 1
  /\ status = ActiveStatus
====
